---- MODULE Spec2Model ----
(***************************************************************************)
(* A model of pyAggregatedRssFeedReader (src/main.py): the RSSReader main  *)
(* window (main thread, one handler at a time), the FeedFetcher threads it *)
(* starts, the queued signal that carries a pass's entries back to the     *)
(* main thread, and the viewed_entries.json file.                          *)
(*                                                                         *)
(* Strings that the code takes apart (the label text that extract_title    *)
(* searches) are sequences of tokens; a token is a run of characters that  *)
(* the regular expression of extract_title never splits.                   *)
(***************************************************************************)
EXTENDS Integers, Sequences, FiniteSets, TLC

\* ------------------------------------------------------------------ bounds

\* Timestamps of entries are 1..MaxTime (published_parsed, compared as tuples).
MaxTime == 2
\* FeedFetcher threads started during one run of the process.
MaxPasses == 2
\* Entries of one parsed feed in PassSpec, which follows a single pass.
MaxFeedEntries == 2

\* ------------------------------------------------------------------- data

\* The keys of rss_feeds.json that the model draws the configuration from.
FeedNames == {"A", "B"}

\* An entry whose source gave no <published>: the attribute is absent.
NoTime == 0
Times == 1..MaxTime

\* Python's None as a member of viewed_entries (extract_title found no match).
NoneTitle == <<"None">>

\* The titles the sources of Spec serve: a plain one and one that holds "</a>".
FeedTitles == {<<"x">>, <<"x", "</a>">>}

\* One item of feed.entries as the code reads it: title, link, published_parsed.
Entries(f) == [title : FeedTitles, link : {"link_" \o f}, published : Times \cup {NoTime}]

\* What feedparser.parse returns for a source that answers: no entry or one.
FeedResults(f) == {<<>>} \cup {<<e>> : e \in Entries(f)}

\* The same for PassSpec: up to MaxFeedEntries entries, all with the plain title.
RECURSIVE SeqsUpTo(_, _)
SeqsUpTo(S, n) ==
    IF n = 0 THEN {<<>>}
    ELSE LET shorter == SeqsUpTo(S, n - 1)
         IN  shorter \cup {Append(q, e) : q \in shorter, e \in S}

LongFeedResults(f) == SeqsUpTo({e \in Entries(f) : e.title = <<"x">>}, MaxFeedEntries)

\* --------------------------------------------------------- pure functions

Max(S) == CHOOSE x \in S : \A y \in S : y <= x
Min(S) == CHOOSE x \in S : \A y \in S : x <= y

\* A token of the label text that ends with the character ">".
EndsGt(tok) == tok \in {">", "</a>", "<b>", "</b>"}

\* The text of an entry's title label, line 234.
LabelText(feed_name, link, title) ==
    <<"<b>", feed_name, "</b>", ": ", "<a", " href='", link, "'", ">">> \o title \o <<"</a>">>

\* re.search(r"<a[^>]*>(.*?)</a>", text) tried at start position i: the pair
\* <<j, k>> with j the end of "<a[^>]*>" and k the "</a>" that closes the
\* shortest ".*?" (which matches no line break), or <<0, 0>> when none.
MatchAt(text, i) ==
    LET n  == Len(text)
        Js == {j \in (i + 1)..n : EndsGt(text[j])}
    IN  IF text[i] # "<a" \/ Js = {} THEN <<0, 0>>
        ELSE LET j  == Min(Js)
                 Ks == {k \in (j + 1)..n : text[k] = "</a>"}
             IN  IF Ks = {} THEN <<0, 0>>
                 ELSE LET k == Min(Ks)
                      IN  IF \E m \in (j + 1)..(k - 1) : text[m] = "\n"
                          THEN <<0, 0>>
                          ELSE <<j, k>>

\* extract_title, lines 53-56: group 1 of the leftmost match, or None.
extract_title(text) ==
    LET Is == {i \in 1..Len(text) : MatchAt(text, i) # <<0, 0>>}
    IN  IF Is = {} THEN NoneTitle
        ELSE LET m == MatchAt(text, Min(Is)) IN SubSeq(text, m[1] + 1, m[2] - 1)

\* The key of the sort of line 79 is defined for every element.
SortKeyDefined(entries) == \A k \in 1..Len(entries) : entries[k].entry.published # NoTime

\* Insert x into a sequence that is sorted newest first, after every element
\* that is not older than x (list.sort is stable, also with reverse=True).
RECURSIVE InsertDesc(_, _)
InsertDesc(x, s) ==
    IF s = <<>> THEN <<x>>
    ELSE IF Head(s).entry.published >= x.entry.published
         THEN <<Head(s)>> \o InsertDesc(x, Tail(s))
         ELSE <<x>> \o s

\* The sort without reverse=True: oldest first.
RECURSIVE SortOldestFirst(_)
SortOldestFirst(entries) ==
    IF entries = <<>> THEN <<>>
    ELSE LET rest == SortOldestFirst(SubSeq(entries, 1, Len(entries) - 1))
             x    == entries[Len(entries)]
             keep == {k \in 1..Len(rest) : rest[k].entry.published <= x.entry.published}
             n    == IF keep = {} THEN 0 ELSE Max(keep)
         IN  SubSeq(rest, 1, n) \o <<x>> \o SubSeq(rest, n + 1, Len(rest))

\* entries.sort(key=lambda x: x[1].published_parsed, reverse=True), line 79.
RECURSIVE SortByPublished(_)
SortByPublished(entries) ==
    IF entries = <<>> THEN <<>>
    ELSE InsertDesc(entries[Len(entries)],
                    SortByPublished(SubSeq(entries, 1, Len(entries) - 1)))

\* sum(1 for _, entry in entries if entry.get("title") not in viewed), line 214.
UnreadCount(entries, viewed) ==
    Cardinality({k \in 1..Len(entries) : entries[k].entry.title \notin viewed})

\* set(json.load(file)) of line 191 raises TypeError, which line 192 does not
\* catch: the file holds valid JSON that is not iterable (a number, null, true).
load_raises(f) == f.kind = "scalar"

\* What load_viewed_entries returns when it returns, lines 187-193:
\* set(json.load(file)), or set() for a missing or undecodable file.
load_viewed_entries(f) == IF f.kind = "list" THEN f.titles ELSE {}

\* What save_viewed_entries leaves on disk when it returns, lines 195-198: the
\* JSON list of the titles. The list is read back into a set, so its order is
\* of no consequence and the model keeps the set.
SavedFile(viewed) == [kind |-> "list", titles |-> viewed]

\* The file after open(..., "w") has truncated it and before the dump is
\* flushed and closed: empty or a proper prefix of the list, which json.load
\* rejects.
TornFile == [kind |-> "invalid", titles |-> {}]

MissingFile == [kind |-> "missing", titles |-> {}]

\* A viewed_entries.json that holds a JSON number, left there by another hand.
ScalarFile == [kind |-> "scalar", titles |-> {}]

\* ------------------------------------------------------------------ state

VARIABLES
    alive,            \* the process is running (its event loop is alive)
    file,             \* viewed_entries.json
    feeds,            \* self.feeds: the configured source names
    viewed_entries,   \* self.viewed_entries
    unread_entries,   \* self.unread_entries
    total_label,      \* the number shown by self.total_label
    mark_all_button,  \* "Mark All as Read" is enabled
    refresh_button,   \* "Refresh Feeds" is enabled
    feed_layout,      \* the entry widgets of self.feed_layout, in order
    passes,           \* the FeedFetcher threads started by this process, in order
    queue             \* finished signals emitted and not yet delivered

vars == <<alive, file, feeds, viewed_entries, unread_entries, total_label,
          mark_all_button, refresh_button, feed_layout, passes, queue>>

\* A FeedFetcher whose run() has submitted one fetch_feed per source, line 69.
\* again: the request that started it came within the TTL of the one before.
NewPass(again) ==
    [pc |-> "run", again |-> again, status |-> [f \in feeds |-> "pending"], entries |-> <<>>]

\* A FeedFetcher whose run() has ended: "emitted" (line 80), "delivered"
\* (update_feed_entries has run with its entries) or "raised" (line 79 raised).
EndedPass(pc) == [pc |-> pc, again |-> FALSE, status |-> <<>>, entries |-> <<>>]

\* The for loop of lines 70-77 has handled every future.
LoopDone(p) == p.pc = "run" /\ \A f \in DOMAIN p.status : p.status[f] \in {"returned", "raised"}

\* ---------------------------------------------------------------- actions

\* refresh_feeds with a result cache: a request within the TTL fetches nothing.
refresh_feeds_cached(again) ==
    /\ Len(passes) < MaxPasses
    /\ mark_all_button' = FALSE
    /\ refresh_button' = FALSE
    /\ passes' = Append(passes, IF again THEN [NewPass(again) EXCEPT !.status = <<>>]
                                          ELSE NewPass(again))

\* refresh_feeds, lines 263-271, with the submit loop of the thread it starts.
\* again is not read by the code: it records that the request came within the
\* TTL (10 seconds) of the request before it.
refresh_feeds(again) ==
    /\ Len(passes) < MaxPasses
    /\ mark_all_button' = FALSE
    /\ refresh_button' = FALSE
    /\ passes' = Append(passes, NewPass(again))

\* RSSReader.__init__, lines 94-169, for the file f found on disk and the
\* sources fs of rss_feeds.json; it ends with the startup refresh_feeds().
Started(f, fs) ==
    /\ alive = TRUE
    /\ file = f
    /\ feeds = fs
    /\ viewed_entries = load_viewed_entries(f)
    /\ unread_entries = 0
    /\ total_label = 0
    /\ mark_all_button = FALSE
    /\ refresh_button = FALSE
    /\ feed_layout = <<>>
    /\ passes = <<[pc |-> "run", again |-> FALSE, status |-> [s \in fs |-> "pending"], entries |-> <<>>]>>
    /\ queue = <<>>

\* RSSReader.__init__ ends at line 102 with the exception of
\* load_viewed_entries: no window, no timer, no thread; the process exits.
Died(f, fs) ==
    /\ alive = FALSE
    /\ file = f
    /\ feeds = fs
    /\ viewed_entries = {}
    /\ unread_entries = 0
    /\ total_label = 0
    /\ mark_all_button = FALSE
    /\ refresh_button = FALSE
    /\ feed_layout = <<>>
    /\ passes = <<>>
    /\ queue = <<>>

\* The first start: no viewed_entries.json yet, or one this program did not
\* write; any configuration of sources.
Init ==
    \E fs \in SUBSET FeedNames : \E f \in {MissingFile, ScalarFile} :
        IF load_raises(f) THEN Died(f, fs) ELSE Started(f, fs)

\* The Refresh button is clicked, line 137, within the TTL of the last request
\* or later.
RefreshClick ==
    /\ alive /\ refresh_button
    /\ \E again \in BOOLEAN : refresh_feeds(again)
    /\ UNCHANGED <<alive, file, feeds, viewed_entries, unread_entries, total_label,
                   feed_layout, queue>>

\* timer1 times out, lines 155-157: 30 minutes after the last timeout.
Timer1Timeout ==
    /\ alive
    /\ refresh_feeds(FALSE)
    /\ UNCHANGED <<alive, file, feeds, viewed_entries, unread_entries, total_label,
                   feed_layout, queue>>

\* update_unread_entries decides to flash the taskbar icon, line 172.
Flashes == unread_entries > 0

\* timer2 times out: update_unread_entries, lines 171-173. The flash is an
\* effect outside the program; no field changes.
Timer2Timeout ==
    /\ alive
    /\ UNCHANGED vars

PassVarsOnly ==
    UNCHANGED <<alive, file, feeds, viewed_entries, unread_entries, total_label,
                mark_all_button, refresh_button, feed_layout, queue>>

\* A future of pass i completes with a parsed feed: lines 73-75.
FetchReturns(i, f, r) ==
    /\ alive /\ passes[i].pc = "run" /\ passes[i].status[f] = "pending"
    /\ passes' = [passes EXCEPT ![i].status[f] = "returned",
                                ![i].entries = @ \o [k \in 1..Len(r) |-> [feed |-> f, entry |-> r[k]]]]
    /\ PassVarsOnly

\* A future of pass i completes with an exception: lines 76-77.
FetchRaises(i, f) ==
    /\ alive /\ passes[i].pc = "run" /\ passes[i].status[f] = "pending"
    /\ passes' = [passes EXCEPT ![i].status[f] = "raised"]
    /\ PassVarsOnly

\* feedparser.parse of line 83 never returns for source f of pass i (the code
\* sets no timeout): as_completed never yields that future.
FetchHangs(i, f) ==
    /\ alive /\ passes[i].pc = "run" /\ passes[i].status[f] = "pending"
    /\ passes' = [passes EXCEPT ![i].status[f] = "hung"]
    /\ PassVarsOnly

\* The end of run(), lines 79-80: the sort, which raises when a key is
\* undefined and ends the thread, and the emit of the finished signal.
SortAndEmit(i) ==
    /\ alive /\ LoopDone(passes[i])
    /\ IF SortKeyDefined(passes[i].entries)
       THEN /\ queue' = Append(queue, [pass |-> i, entries |-> SortByPublished(passes[i].entries)])
            /\ passes' = [passes EXCEPT ![i] = EndedPass("emitted")]
       ELSE /\ queue' = queue
            /\ passes' = [passes EXCEPT ![i] = EndedPass("raised")]
    /\ UNCHANGED <<alive, file, feeds, viewed_entries, unread_entries, total_label,
                   mark_all_button, refresh_button, feed_layout>>

\* update_feed_entries that returns early, before lines 259-261, when there
\* is no entry to display.
update_feed_entries_returns_early ==
    /\ alive /\ queue # <<>>
    /\ LET entries == Head(queue).entries IN
        /\ total_label' = Len(entries)
        /\ unread_entries' = UnreadCount(entries, viewed_entries)
        /\ feed_layout' = entries
        /\ mark_all_button' = IF entries = <<>> THEN mark_all_button ELSE TRUE
        /\ refresh_button' = IF entries = <<>> THEN refresh_button ELSE TRUE
    /\ passes' = [passes EXCEPT ![Head(queue).pass] = EndedPass("delivered")]
    /\ queue' = Tail(queue)
    /\ UNCHANGED <<alive, file, feeds, viewed_entries>>

\* update_feed_entries that also drops the viewed titles no entry carries.
update_feed_entries_pruning ==
    /\ alive /\ queue # <<>>
    /\ LET entries == Head(queue).entries IN
        /\ total_label' = Len(entries)
        /\ unread_entries' = UnreadCount(entries, viewed_entries)
        /\ feed_layout' = entries
        /\ viewed_entries' = {t \in viewed_entries : \E k \in 1..Len(entries) : entries[k].entry.title = t}
    /\ passes' = [passes EXCEPT ![Head(queue).pass] = EndedPass("delivered")]
    /\ queue' = Tail(queue)
    /\ mark_all_button' = TRUE
    /\ refresh_button' = TRUE
    /\ UNCHANGED <<alive, file, feeds>>

\* update_feed_entries, lines 204-261, run by the main thread for the oldest
\* undelivered finished signal.
update_feed_entries ==
    /\ alive /\ queue # <<>>
    /\ LET entries == Head(queue).entries IN
        /\ total_label' = Len(entries)
        /\ unread_entries' = UnreadCount(entries, viewed_entries)
        /\ feed_layout' = entries
    /\ passes' = [passes EXCEPT ![Head(queue).pass] = EndedPass("delivered")]
    /\ queue' = Tail(queue)
    /\ mark_all_button' = TRUE
    /\ refresh_button' = TRUE
    /\ UNCHANGED <<alive, file, feeds, viewed_entries>>

\* The link handed to on_entry_click by the lambda of line 240: entry is the
\* loop variable of update_feed_entries, read when the link is activated.
ClickLink(i) == feed_layout[Len(feed_layout)].entry.link

\* on_entry_click without the test of line 276: every click saves and counts.
on_entry_click_unguarded(i) ==
    /\ alive /\ i \in 1..Len(feed_layout)
    /\ ClickLink(i) \in {"link_" \o f : f \in FeedNames}
    /\ viewed_entries' = viewed_entries \cup {feed_layout[i].entry.title}
    /\ file' = SavedFile(viewed_entries')
    /\ unread_entries' = unread_entries - 1
    /\ UNCHANGED <<alive, feeds, total_label, mark_all_button, refresh_button,
                   feed_layout, passes, queue>>

\* on_entry_click that marks the clicked widget only, not its title.
on_entry_click_no_add(i) ==
    /\ alive /\ i \in 1..Len(feed_layout)
    /\ ClickLink(i) \in {"link_" \o f : f \in FeedNames}
    /\ LET title == feed_layout[i].entry.title IN
        IF title \notin viewed_entries
        THEN /\ viewed_entries' = viewed_entries
             /\ file' = SavedFile(viewed_entries')
             /\ unread_entries' = unread_entries - 1
        ELSE UNCHANGED <<viewed_entries, file, unread_entries>>
    /\ UNCHANGED <<alive, feeds, total_label, mark_all_button, refresh_button,
                   feed_layout, passes, queue>>

\* on_entry_click, lines 273-291, for the i-th entry widget. webbrowser.open
\* (ClickLink(i)) is an effect outside the program.
on_entry_click(i) ==
    /\ alive /\ i \in 1..Len(feed_layout)
    /\ ClickLink(i) \in {"link_" \o f : f \in FeedNames}
    /\ LET title == feed_layout[i].entry.title IN
        IF title \notin viewed_entries
        THEN /\ viewed_entries' = viewed_entries \cup {title}
             /\ file' = SavedFile(viewed_entries')
             /\ unread_entries' = unread_entries - 1
        ELSE UNCHANGED <<viewed_entries, file, unread_entries>>
    /\ UNCHANGED <<alive, feeds, total_label, mark_all_button, refresh_button,
                   feed_layout, passes, queue>>

\* The titles mark_all_as_read adds, lines 295-304: extract_title of the text
\* of every title label.
MarkedTitles ==
    {extract_title(LabelText(feed_layout[k].feed, feed_layout[k].entry.link,
                             feed_layout[k].entry.title)) : k \in 1..Len(feed_layout)}

\* mark_all_as_read without the save of line 317.
mark_all_as_read_no_save ==
    /\ alive /\ mark_all_button
    /\ viewed_entries' = viewed_entries \cup MarkedTitles
    /\ file' = file
    /\ unread_entries' = 0
    /\ UNCHANGED <<alive, feeds, total_label, mark_all_button, refresh_button,
                   feed_layout, passes, queue>>

\* mark_all_as_read, lines 293-319.
mark_all_as_read ==
    /\ alive /\ mark_all_button
    /\ viewed_entries' = viewed_entries \cup MarkedTitles
    /\ file' = SavedFile(viewed_entries')
    /\ unread_entries' = 0
    /\ UNCHANGED <<alive, feeds, total_label, mark_all_button, refresh_button,
                   feed_layout, passes, queue>>

\* The process has ended: nothing is left of it but the files.
Stopped(f) ==
    /\ alive' = FALSE
    /\ file' = f
    /\ viewed_entries' = {}
    /\ unread_entries' = 0
    /\ total_label' = 0
    /\ mark_all_button' = FALSE
    /\ refresh_button' = FALSE
    /\ feed_layout' = <<>>
    /\ passes' = <<>>
    /\ queue' = <<>>
    /\ UNCHANGED feeds

\* The window is closed between two handlers: app.exec() returns, line 325.
Quit == alive /\ Stopped(file)

\* The process is killed inside save_viewed_entries, lines 197-198, called by
\* on_entry_click for an unviewed title or by mark_all_as_read.
CrashInSave ==
    /\ alive
    /\ \/ \E i \in 1..Len(feed_layout) : feed_layout[i].entry.title \notin viewed_entries
       \/ mark_all_button
    /\ Stopped(TornFile)

\* The program is started again: __init__ with the files as they were left;
\* it ends at line 102 when load_viewed_entries raises.
Restart ==
    /\ ~alive
    /\ alive' = ~load_raises(file)
    /\ viewed_entries' = load_viewed_entries(file)
    /\ unread_entries' = 0
    /\ total_label' = 0
    /\ mark_all_button' = FALSE
    /\ refresh_button' = FALSE
    /\ feed_layout' = <<>>
    /\ passes' = IF load_raises(file) THEN <<>>
                  ELSE <<[pc |-> "run", again |-> FALSE, status |-> [s \in feeds |-> "pending"], entries |-> <<>>]>>
    /\ queue' = <<>>
    /\ UNCHANGED <<file, feeds>>

Next ==
    \/ RefreshClick
    \/ Timer1Timeout
    \/ Timer2Timeout
    \/ \E i \in 1..Len(passes) : \E f \in feeds :
          \/ \E r \in FeedResults(f) : FetchReturns(i, f, r)
          \/ FetchRaises(i, f)
          \/ FetchHangs(i, f)
    \/ \E i \in 1..Len(passes) : SortAndEmit(i)
    \/ update_feed_entries
    \/ \E i \in 1..Len(feed_layout) : on_entry_click(i)
    \/ mark_all_as_read
    \/ Quit
    \/ CrashInSave
    \/ Restart

Spec == Init /\ [][Next]_vars

\* ----------------------------------------------------- a single pass

\* One process, one FeedFetcher, feeds of up to MaxFeedEntries entries: the
\* fetch loop in every completion order, the sort, the emit and the delivery.
PassInit == Started(MissingFile, FeedNames)

PassNext ==
    \/ \E f \in feeds :
          \/ \E r \in LongFeedResults(f) : FetchReturns(1, f, r)
          \/ FetchRaises(1, f)
    \/ SortAndEmit(1)
    \/ update_feed_entries

PassSpec == PassInit /\ [][PassNext]_vars

\* ----------------------------------------------------------------- claims

\* A pass that has been started and has not delivered its result.
InFlight == {i \in 1..Len(passes) : passes[i].pc \in {"run", "emitted"}}

IsNonIncreasing(entries) ==
    \A a, b \in 1..Len(entries) : a < b => entries[a].entry.published >= entries[b].entry.published

\* The entries of a snapshot that carry the title t.
TitleCount(entries, t) == Cardinality({k \in 1..Len(entries) : entries[k].entry.title = t})

\* A step of pass i's thread.
PassStep(i) ==
    \/ \E f \in feeds :
          \/ \E r \in FeedResults(f) : FetchReturns(i, f, r)
          \/ FetchRaises(i, f)
          \/ FetchHangs(i, f)
    \/ SortAndEmit(i)

\* C1: at most one aggregation pass is in flight at any time; a refresh
\* trigger that arrives while a pass is in flight starts no second pass.
C1_AtMostOnePassInFlight == Cardinality(InFlight) <= 1

\* C2: a pass of which K >= 1 sources have raised, and whose other sources
\* have returned, completes: the end of run() emits and does not raise.
C2_PassCompletesDespiteFailures ==
    \A i \in 1..Len(passes) :
        (LoopDone(passes[i]) /\ \E f \in DOMAIN passes[i].status : passes[i].status[f] = "raised")
            => SortKeyDefined(passes[i].entries)

\* C3 as stated: a refresh request within the TTL of the one before performs
\* no source retrieval.
C3_RequestWithinTTLFetchesNothing ==
    \A i \in 1..Len(passes) :
        (passes[i].pc = "run" /\ passes[i].again) => DOMAIN passes[i].status = {}

\* C3 as amended: every refresh request, also one within the TTL of the one
\* before, starts a pass that has submitted a retrieval of every configured
\* source.
C3_EveryRequestFetchesEverySource ==
    \A i \in 1..Len(passes) : passes[i].pc = "run" => DOMAIN passes[i].status = feeds

\* A pass requested within the TTL has got entries from a source.
C3_Witness ==
    \E i \in 1..Len(passes) :
        /\ passes[i].pc = "run" /\ passes[i].again
        /\ \E f \in feeds : passes[i].status[f] = "returned"
        /\ passes[i].entries # <<>>

\* C4: after mark_all_as_read the title of every displayed entry is viewed:
\* the unread count update_feed_entries computes for that snapshot is 0.
C4_MarkAllLeavesNothingUnread ==
    [][mark_all_as_read => UnreadCount(feed_layout', viewed_entries') = 0]_vars

\* C5: every entry of an emitted snapshot has a published timestamp, and the
\* sort of run() never fails: no pass ends by raising at line 79.
C5_SortNeverFails ==
    /\ \A q \in 1..Len(queue) : SortKeyDefined(queue[q].entries)
    /\ \A i \in 1..Len(passes) : passes[i].pc # "raised"

\* C6: no pass is blocked by a fetch that never returns: a pass whose run()
\* has not ended can take a step.
C6_RunningPassCanStep ==
    \A i \in 1..Len(passes) : passes[i].pc = "run" => ENABLED PassStep(i)

\* C7: every emitted snapshot, undelivered or displayed, is sorted by
\* published timestamp, non-increasing.
C7_SnapshotsSortedNewestFirst ==
    /\ \A q \in 1..Len(queue) : IsNonIncreasing(queue[q].entries)
    /\ IsNonIncreasing(feed_layout)

\* An emitted snapshot of four entries, from both sources, with a duplicate
\* timestamp and two different ones.
C7_Witness ==
    \E q \in 1..Len(queue) :
        LET e == queue[q].entries IN
        /\ Len(e) = 4
        /\ {e[k].feed : k \in 1..4} = FeedNames
        /\ e[1].feed # e[2].feed
        /\ e[1].entry.published = e[2].entry.published
        /\ e[2].entry.published > e[4].entry.published

\* C8 as stated: a click that marks an unviewed title lowers the unread
\* count that update_feed_entries computes for the same entries by exactly 1.
C8_ClickLowersUnreadByOne ==
    [][\A i \in 1..Len(feed_layout) :
          (on_entry_click(i) /\ feed_layout[i].entry.title \notin viewed_entries)
              => UnreadCount(feed_layout, viewed_entries')
                     = UnreadCount(feed_layout, viewed_entries) - 1]_vars

\* C8 as amended: such a click lowers that count by the number of entries of
\* the snapshot that carry the clicked title, and update_feed_entries sets
\* the unread count of a delivered snapshot to that count.
C8_ClickLowersUnreadByTitleCount ==
    [][/\ \A i \in 1..Len(feed_layout) :
            (on_entry_click(i) /\ feed_layout[i].entry.title \notin viewed_entries)
                => UnreadCount(feed_layout, viewed_entries')
                       = UnreadCount(feed_layout, viewed_entries)
                             - TitleCount(feed_layout, feed_layout[i].entry.title)
       /\ update_feed_entries
            => unread_entries' = UnreadCount(Head(queue).entries, viewed_entries)]_vars

\* One of two displayed entries that share a title has been clicked (the
\* counter went from 2 to 1) and the same entries, aggregated again, wait
\* for delivery.
C8_Witness ==
    /\ Len(feed_layout) = 2
    /\ feed_layout[1].entry.title = feed_layout[2].entry.title
    /\ feed_layout[1].entry.title \in viewed_entries
    /\ unread_entries = 1
    /\ queue # <<>> /\ Head(queue).entries = feed_layout

\* C9: the read-state file is replaced atomically, also when the process is
\* killed inside save_viewed_entries: the titles load_viewed_entries reads
\* from the file are never lost from it.
C9_PersistedTitlesNeverLost ==
    [][load_viewed_entries(file) \subseteq load_viewed_entries(file')]_vars

\* C10: while the process runs, the viewed set only grows, only
\* on_entry_click and mark_all_as_read change it, and refresh_feeds, the
\* steps of a pass, update_feed_entries and both timers leave it unchanged.
C10_ViewedGrowsOnlyByUserAction ==
    [][(alive /\ alive') =>
          /\ viewed_entries \subseteq viewed_entries'
          /\ viewed_entries' # viewed_entries
                => (mark_all_as_read \/ \E i \in 1..Len(feed_layout) : on_entry_click(i))
          /\ (RefreshClick \/ Timer1Timeout \/ Timer2Timeout \/ update_feed_entries
                \/ \E i \in 1..Len(passes) : PassStep(i))
                => viewed_entries' = viewed_entries]_vars

\* Both titles have been marked viewed in this run and a second pass has
\* been requested, has run and has been delivered since the first.
C10_Witness ==
    /\ alive
    /\ file.kind = "list" /\ viewed_entries = FeedTitles
    /\ Len(passes) = 2 /\ passes[2].pc = "delivered"

\* C11: a pass over zero configured sources, and a pass all of whose sources
\* raised, ends without error and emits the empty snapshot; the delivery of
\* an empty snapshot sets total entries and unread entries to 0 and
\* re-enables both buttons.
AllFailed(p) == LoopDone(p) /\ \A f \in DOMAIN p.status : p.status[f] = "raised"

C11_EmptyPassDeliversEmptySnapshot ==
    [][/\ \A i \in 1..Len(passes) :
            (AllFailed(passes[i]) /\ SortAndEmit(i))
                => /\ passes'[i].pc = "emitted"
                   /\ queue'[Len(queue')] = [pass |-> i, entries |-> <<>>]
       /\ (update_feed_entries /\ Head(queue).entries = <<>>)
            => /\ total_label' = 0 /\ unread_entries' = 0 /\ feed_layout' = <<>>
               /\ mark_all_button' /\ refresh_button']_vars

\* The startup pass over zero configured sources has been delivered.
C11_Witness ==
    /\ alive /\ feeds = {}
    /\ Len(passes) = 1 /\ passes[1].pc = "delivered"
    /\ total_label = 0 /\ unread_entries = 0
    /\ mark_all_button /\ refresh_button

\* C12: marking a title viewed is idempotent: a click adds the entry's title
\* to the viewed set, and a click on an entry whose title is in the viewed
\* set changes neither the viewed set nor the read-state file nor the unread
\* counter, so two clicks leave what one click leaves.
C12_SecondClickChangesNothing ==
    [][\A i \in 1..Len(feed_layout) :
          on_entry_click(i)
              => /\ feed_layout[i].entry.title \in viewed_entries'
                 /\ feed_layout[i].entry.title \in viewed_entries
                        => UNCHANGED <<viewed_entries, file, unread_entries>>]_vars

\* One of two displayed entries with different titles has been clicked: its
\* title is viewed and saved, the counter went from 2 to 1, and a second click
\* on it is possible.
C12_Witness ==
    /\ Len(feed_layout) = 2
    /\ feed_layout[1].entry.title \in viewed_entries
    /\ feed_layout[2].entry.title \notin viewed_entries
    /\ file = SavedFile(viewed_entries)
    /\ total_label = 2 /\ unread_entries = 1
    /\ ENABLED on_entry_click(1)

\* C13: loading the read-state at startup is never fatal: whatever the file
\* holds, a start of the program brings up a running process.
C13_StartupLoadNeverFatal == ~alive => ENABLED (Restart /\ alive')

\* C14: read-state is written through: while the process runs, the titles
\* the read-state file holds are the in-memory viewed set, so a restart
\* reloads exactly the current viewed set.
C14_FileHoldsViewedSet == alive => load_viewed_entries(file) = viewed_entries

\* Both titles have been marked viewed and saved, the later one in this run
\* of the process, while a snapshot of one entry is displayed.
C14_Witness ==
    /\ alive /\ Len(passes) = 1 /\ mark_all_button
    /\ file.kind = "list" /\ viewed_entries = FeedTitles
    /\ Len(feed_layout) = 1 /\ unread_entries = 0

\* C15: in every state of the running process the unread counter is the
\* number of displayed entries whose title is not in the viewed set.
C15_CounterIsUnreadCount == alive => unread_entries = UnreadCount(feed_layout, viewed_entries)

\* C16: the unread counter is never negative.
C16_CounterNeverNegative == unread_entries >= 0

\* C17: every refresh_feeds call is followed by the delivery of its pass's
\* snapshot and by the re-enabling of both buttons, provided every fetch
\* returns or raises: when no pass is left in its fetch loop and no snapshot
\* waits for delivery, every started pass has delivered and both buttons are
\* enabled.
C17_EveryPassDeliversAndReenables ==
    (alive /\ queue = <<>> /\ \A i \in 1..Len(passes) : passes[i].pc # "run" \/ LoopDone(passes[i]))
        => /\ \A i \in 1..Len(passes) : passes[i].pc = "delivered" \/ ENABLED (SortAndEmit(i) /\ queue' # queue)
           /\ (\A i \in 1..Len(passes) : passes[i].pc = "delivered") => (mark_all_button /\ refresh_button)

\* C18: a click on the link of a displayed entry opens that entry's own link
\* and marks that entry's own title as viewed.
C18_ClickOpensOwnLink ==
    [][\A i \in 1..Len(feed_layout) :
          on_entry_click(i)
              => /\ ClickLink(i) = feed_layout[i].entry.link
                 /\ feed_layout[i].entry.title \in viewed_entries']_vars

\* C19: snapshots are displayed in the order their passes were started, and
\* the buttons are not re-enabled while a started pass has not delivered:
\* update_feed_entries never displays the snapshot of a pass after that of a
\* pass started later, and when it re-enables the buttons no pass is in
\* flight.
C19_DisplayedInStartOrder ==
    [][update_feed_entries
          => /\ \A j \in 1..Len(passes) : j > Head(queue).pass => passes[j].pc # "delivered"
             /\ InFlight' = {}]_vars

====
